---- MODULE Spec2Model ----
(***************************************************************************)
(* Model of WIP/sample-pulumi.py: a Pulumi program that declares an S3     *)
(* Express directory bucket, a Glue database and table, an IAM role,       *)
(* policy and attachment, and a Kinesis Firehose delivery stream.          *)
(*                                                                         *)
(* The program runs top to bottom and registers each resource; a           *)
(* registered resource is created once every resource whose output it      *)
(* references exists.  Strings are TLA+ strings and concatenation is \o.   *)
(***************************************************************************)
EXTENDS Integers, Sequences, FiniteSets, TLC

VARIABLES
    aws_region,                  \* aws.get_region().name
    account_id,                  \* aws.get_caller_identity().account_id
    pc,                          \* index of the next declaration of the script
    registered,                  \* resources the script has declared
    created,                     \* resources that exist
    s3_express_directory_bucket,
    glue_database,
    glue_table,
    firehose_role,
    firehose_policy,
    policy_attachment,
    firehose_stream,
    stack_outputs                \* values of pulumi.export

vars == <<aws_region, account_id, pc, registered, created,
          s3_express_directory_bucket, glue_database, glue_table,
          firehose_role, firehose_policy, policy_attachment, firehose_stream,
          stack_outputs>>

----------------------------------------------------------------------------
(* Bounds of the environment the program is run in. *)

NumRegions  == 2
NumAccounts == 2
NumSuffixes == 2

RegionNames  == <<"us-east-1", "us-west-2", "eu-west-1", "ap-south-1">>
AccountNames == <<"111111111111", "222222222222", "333333333333", "444444444444">>
SuffixNames  == <<"0a1b2c3", "4d5e6f7", "89abcde", "f012345">>

FirstOf(names, n) == {names[i] : i \in 1..(IF n < Len(names) THEN n ELSE Len(names))}

Regions  == FirstOf(RegionNames, NumRegions)
Accounts == FirstOf(AccountNames, NumAccounts)
Suffixes == FirstOf(SuffixNames, NumSuffixes)

\* value of an output that has not resolved yet
Unresolved == "<unresolved>"

Unknown(fields) == [f \in fields |-> Unresolved]

----------------------------------------------------------------------------
(* Configuration section of the script. *)

availability_zone_id == "use1-az4"
bucket_base_name == "my-s3-table-bucket"
s3_express_bucket_name == bucket_base_name \o "--" \o availability_zone_id \o "--x-s3"
database_name == "s3_tables_db"
table_name == "web_events_s3_table"
firehose_stream_name == "s3-tables-delivery-stream"
partition_lambda_arn == "arn:aws:lambda:..."

\* pulumi.Output.concat: the parts joined in order
RECURSIVE OutputConcat(_)
OutputConcat(parts) ==
    IF parts = <<>> THEN "" ELSE Head(parts) \o OutputConcat(Tail(parts))

----------------------------------------------------------------------------
(* Logical names of the seven resources, in the order of declaration. *)

Bucket     == "s3ExpressDirectoryBucket"
Database   == "s3TablesGlueDatabase"
Table      == "s3GlueTableForExpress"
Role       == "firehoseS3ExpressRole"
Policy     == "firehoseS3ExpressPolicy"
Attachment == "firehoseS3ExpressPolicyAttachment"
Stream     == "s3TablesFirehoseStream"

ProgramOrder == <<Bucket, Database, Table, Role, Policy, Attachment, Stream>>
Resources == {ProgramOrder[i] : i \in 1..Len(ProgramOrder)}
ExportsPc == Len(ProgramOrder) + 1
DonePc    == ExportsPc + 1

\* The table as if its location were a literal instead of a bucket reference.
DepsTableLiteralLocation(r) ==
    CASE r = Bucket     -> {}
      [] r = Database   -> {}
      [] r = Table      -> {Database}
      [] r = Role       -> {}
      [] r = Policy     -> {Bucket, Database, Table}
      [] r = Attachment -> {Role, Policy}
      [] r = Stream     -> {Role, Bucket, Database, Table}

\* The resources whose outputs the arguments of r reference.
Deps(r) ==
    CASE r = Bucket     -> {}
      [] r = Database   -> {}
      [] r = Table      -> {Bucket, Database}
      [] r = Role       -> {}
      [] r = Policy     -> {Bucket, Database, Table}
      [] r = Attachment -> {Role, Policy}
      [] r = Stream     -> {Role, Bucket, Database, Table}

\* r has been declared, does not exist yet, and all it references exists
Ready(r) ==
    /\ r \in registered
    /\ r \notin created
    /\ Deps(r) \subseteq created

----------------------------------------------------------------------------
(* Outputs derived from the bucket. *)

s3_express_bucket_arn ==
    OutputConcat(<<"arn:aws:s3express:", aws_region, ":", account_id, ":bucket/",
                   s3_express_directory_bucket.bucket_name>>)

\* The location without its trailing separator.
TableLocationNoTrailingSlash ==
    OutputConcat(<<"s3express://", s3_express_directory_bucket.bucket_name,
                   "/", table_name>>)

s3_express_table_location ==
    OutputConcat(<<"s3express://", s3_express_directory_bucket.bucket_name,
                   "/", table_name, "/">>)

firehose_error_output_prefix ==
    OutputConcat(<<"s3express://", s3_express_directory_bucket.bucket_name,
                   "/firehose-errors/">>)

----------------------------------------------------------------------------
(* json.dumps with its default separators, for the two document shapes    *)
(* the script serialises.                                                  *)

Quote(s) == "\"" \o s \o "\""

RECURSIVE JsonItems(_)
JsonItems(items) ==
    IF items = <<>> THEN ""
    ELSE IF Len(items) = 1 THEN Head(items)
    ELSE Head(items) \o ", " \o JsonItems(Tail(items))

JsonArray(items) == "[" \o JsonItems(items) \o "]"

JsonStrings(strs) == JsonArray([i \in 1..Len(strs) |-> Quote(strs[i])])

JsonStatement(st) ==
    "{" \o Quote("Effect") \o ": " \o Quote(st.Effect) \o ", "
        \o Quote("Action") \o ": " \o JsonStrings(st.Action) \o ", "
        \o Quote("Resource") \o ": " \o JsonStrings(st.Resource) \o "}"

JsonDumps(doc) ==
    "{" \o Quote("Version") \o ": " \o Quote(doc.Version) \o ", "
        \o Quote("Statement") \o ": "
        \o JsonArray([i \in 1..Len(doc.Statement) |-> JsonStatement(doc.Statement[i])])
        \o "}"

assume_role_policy ==
    "{" \o Quote("Version") \o ": " \o Quote("2012-10-17") \o ", "
        \o Quote("Statement") \o ": [{"
        \o Quote("Action") \o ": " \o Quote("sts:AssumeRole") \o ", "
        \o Quote("Effect") \o ": " \o Quote("Allow") \o ", "
        \o Quote("Principal") \o ": {" \o Quote("Service") \o ": "
        \o Quote("firehose.amazonaws.com") \o "}}]}"

----------------------------------------------------------------------------
(* The Firehose policy document.  args is the list Output.all resolves     *)
(* to; Python's args[k] is args[k + 1] here.                               *)

S3ExpressActions == <<"s3express:CreateSession", "s3express:PutObject">>
GlueActions == <<"glue:GetDatabase", "glue:GetTable", "glue:UpdateTable">>
LogsActions == <<"logs:CreateLogGroup", "logs:CreateLogStream", "logs:PutLogEvents">>

LogGroupArn ==
    "arn:aws:logs:" \o aws_region \o ":" \o account_id
        \o ":log-group:/aws/kinesisfirehose/" \o firehose_stream_name \o ":*"

\* The object path built from the bucket name (the next list element)
\* instead of the bucket ARN.
PolicyStatementsObjectPathFromName(args) ==
    << [Effect |-> "Allow", Action |-> S3ExpressActions,
        Resource |-> <<args[1], args[2] \o "/*">>],
       [Effect |-> "Allow", Action |-> GlueActions,
        Resource |-> <<"arn:aws:glue:" \o aws_region \o ":" \o args[4] \o ":catalog",
                       "arn:aws:glue:" \o aws_region \o ":" \o args[4] \o ":database/" \o args[5],
                       "arn:aws:glue:" \o aws_region \o ":" \o args[4] \o ":table/" \o args[5]
                           \o "/" \o args[6]>>],
       [Effect |-> "Allow", Action |-> LogsActions,
        Resource |-> <<LogGroupArn>>] >>

PolicyStatements(args) ==
    << [Effect |-> "Allow", Action |-> S3ExpressActions,
        Resource |-> <<args[1], args[1] \o "/*">>],
       [Effect |-> "Allow", Action |-> GlueActions,
        Resource |-> <<"arn:aws:glue:" \o aws_region \o ":" \o args[4] \o ":catalog",
                       "arn:aws:glue:" \o aws_region \o ":" \o args[4] \o ":database/" \o args[5],
                       "arn:aws:glue:" \o aws_region \o ":" \o args[4] \o ":table/" \o args[5]
                           \o "/" \o args[6]>>],
       [Effect |-> "Allow", Action |-> LogsActions,
        Resource |-> <<LogGroupArn>>] >>

PolicyArgs ==
    << s3_express_bucket_arn,
       s3_express_directory_bucket.bucket_name,
       partition_lambda_arn,
       glue_database.catalog_id,
       glue_database.name,
       glue_table.name >>

firehose_policy_document ==
    JsonDumps([Version |-> "2012-10-17", Statement |-> PolicyStatements(PolicyArgs)])

----------------------------------------------------------------------------
(* Arguments of the declared resources. *)

\* A bucket located in another zone than the one its name carries.
DirectoryBucketArgsOtherZone ==
    [ location |-> [name |-> "use1-az5", type |-> "AvailabilityZone"],
      bucket_name |-> s3_express_bucket_name,
      data_redundancy |-> "SingleAvailabilityZone" ]

DirectoryBucketArgs ==
    [ location |-> [name |-> availability_zone_id, type |-> "AvailabilityZone"],
      bucket_name |-> s3_express_bucket_name,
      data_redundancy |-> "SingleAvailabilityZone" ]

GlueColumns ==
    << [name |-> "site_id",    type |-> "string"],
       [name |-> "timestamp",  type |-> "timestamp"],
       [name |-> "event_data", type |-> "string"],
       [name |-> "date",       type |-> "date"] >>

GluePartitionKeys ==
    << [name |-> "site_id", type |-> "string"],
       [name |-> "date",    type |-> "date"] >>

\* The table written with another codec than the stream's serializer.
GlueParametersGzip ==
    ("table_type" :> "ICEBERG") @@ ("format" :> "parquet")
        @@ ("write.parquet.compression-codec" :> "gzip")

GlueParameters ==
    ("table_type" :> "ICEBERG") @@ ("format" :> "parquet")
        @@ ("write.parquet.compression-codec" :> "snappy")

GlueTableArgs ==
    [ database_name |-> glue_database.name,
      name |-> table_name,
      table_type |-> "ICEBERG",
      storage_descriptor |->
          [ location |-> s3_express_table_location,
            input_format |-> "org.apache.hadoop.mapred.TextInputFormat",
            output_format |-> "org.apache.hadoop.hive.ql.io.HiveIgnoreKeyTextOutputFormat",
            serde_info |->
                [ name |-> "IcebergSerDe",
                  serialization_library |->
                      "org.apache.hadoop.hive.serde2.lazy.LazySimpleSerDe" ],
            columns |-> GlueColumns ],
      partition_keys |-> GluePartitionKeys,
      parameters |-> GlueParameters ]

\* The error-output layout of the script used for the data prefix.
PrefixPartsUnderErrors == <<"firehose-errors/", table_name, "/">>

\* The parts Output.concat joins into the stream's prefix.
PrefixParts == <<table_name, "/">>

\* No processing_configuration is passed to the stream.
ProcessingConfiguration == [enabled |-> FALSE, processors |-> <<>>]

partition_lambda_role_arn == "arn:aws:iam:..."

\* The schema read with the placeholder Lambda role instead of the
\* Firehose role.
SchemaConfigurationLambdaRole ==
    [ role_arn |-> partition_lambda_role_arn,
      database_name |-> glue_database.name,
      table_name |-> glue_table.name,
      region |-> aws_region ]

SchemaConfiguration ==
    [ role_arn |-> firehose_role.arn,
      database_name |-> glue_database.name,
      table_name |-> glue_table.name,
      region |-> aws_region ]

DataFormatConversionConfiguration ==
    [ enabled |-> TRUE,
      input_format_configuration |->
          [deserializer |-> [open_x_json_ser_de |-> <<>>]],
      output_format_configuration |->
          [serializer |-> [parquet_ser_de |-> [compression |-> "SNAPPY"]]],
      schema_configuration |-> SchemaConfiguration ]

DynamicPartitioningConfiguration ==
    [ enabled |-> TRUE,
      retry_options |-> [duration_in_seconds |-> 60] ]

FirehoseStreamArgs ==
    [ name |-> firehose_stream_name,
      destination |-> "extended_s3",
      extended_s3_configuration |->
          [ role_arn |-> firehose_role.arn,
            bucket_arn |-> s3_express_bucket_arn,
            prefix |-> OutputConcat(PrefixParts),
            buffering_interval |-> 60,
            buffering_size |-> 5,
            compression_format |-> "UNCOMPRESSED",
            cloudwatch_logging_options |->
                [ enabled |-> TRUE,
                  log_group_name |-> "/aws/kinesisfirehose/" \o firehose_stream_name,
                  log_stream_name |-> "S3ExpressDelivery" ],
            processing_configuration |-> ProcessingConfiguration,
            data_format_conversion_configuration |-> DataFormatConversionConfiguration,
            dynamic_partitioning_configuration |-> DynamicPartitioningConfiguration ] ]

\* pulumi.export of the seven stack outputs
StackExports ==
    [ s3_express_bucket_name |-> s3_express_directory_bucket.bucket_name,
      s3_express_bucket_arn |-> s3_express_bucket_arn,
      s3_table_location |-> s3_express_table_location,
      glue_database_name |-> glue_database.name,
      glue_table_name |-> glue_table.name,
      firehose_delivery_stream_name |-> firehose_stream.name,
      firehose_delivery_stream_arn |-> firehose_stream.arn ]

ExportDeps == {Bucket, Database, Table, Stream}

----------------------------------------------------------------------------
(* Initial state: the script has not declared anything yet. *)

Init ==
    /\ aws_region \in Regions
    /\ account_id \in Accounts
    /\ pc = 1
    /\ registered = {}
    /\ created = {}
    /\ s3_express_directory_bucket =
           Unknown({"location", "bucket_name", "data_redundancy", "arn"})
    /\ glue_database = Unknown({"name", "catalog_id"})
    /\ glue_table = Unknown({"database_name", "name", "table_type",
                             "storage_descriptor", "partition_keys", "parameters"})
    /\ firehose_role = Unknown({"name", "arn", "assume_role_policy"})
    /\ firehose_policy = Unknown({"name", "arn", "policy"})
    /\ policy_attachment = Unknown({"role", "policy_arn"})
    /\ firehose_stream = Unknown({"name", "destination", "arn",
                                  "extended_s3_configuration"})
    /\ stack_outputs = Unknown({"s3_express_bucket_name", "s3_express_bucket_arn",
                                "s3_table_location", "glue_database_name",
                                "glue_table_name", "firehose_delivery_stream_name",
                                "firehose_delivery_stream_arn"})

(* The script reaches its next resource declaration and registers it. *)
Register(r) ==
    /\ pc \in 1..Len(ProgramOrder)
    /\ r = ProgramOrder[pc]
    /\ registered' = registered \cup {r}
    /\ pc' = pc + 1
    /\ UNCHANGED <<aws_region, account_id, created,
                   s3_express_directory_bucket, glue_database, glue_table,
                   firehose_role, firehose_policy, policy_attachment,
                   firehose_stream, stack_outputs>>

CreateBucket ==
    /\ Ready(Bucket)
    /\ s3_express_directory_bucket' =
           [ location |-> DirectoryBucketArgs.location,
             bucket_name |-> DirectoryBucketArgs.bucket_name,
             data_redundancy |-> DirectoryBucketArgs.data_redundancy,
             arn |-> "arn:aws:s3express:" \o aws_region \o ":" \o account_id
                         \o ":bucket/" \o DirectoryBucketArgs.bucket_name ]
    /\ created' = created \cup {Bucket}
    /\ UNCHANGED <<aws_region, account_id, pc, registered,
                   glue_database, glue_table, firehose_role, firehose_policy,
                   policy_attachment, firehose_stream, stack_outputs>>

CreateDatabase ==
    /\ Ready(Database)
    /\ glue_database' = [name |-> database_name, catalog_id |-> account_id]
    /\ created' = created \cup {Database}
    /\ UNCHANGED <<aws_region, account_id, pc, registered,
                   s3_express_directory_bucket, glue_table, firehose_role,
                   firehose_policy, policy_attachment, firehose_stream,
                   stack_outputs>>

CreateTable ==
    /\ Ready(Table)
    /\ glue_table' = GlueTableArgs
    /\ created' = created \cup {Table}
    /\ UNCHANGED <<aws_region, account_id, pc, registered,
                   s3_express_directory_bucket, glue_database, firehose_role,
                   firehose_policy, policy_attachment, firehose_stream,
                   stack_outputs>>

(* The role's physical name is its logical name with a random suffix. *)
CreateRole ==
    /\ Ready(Role)
    /\ \E sfx \in Suffixes :
           firehose_role' =
               [ name |-> Role \o "-" \o sfx,
                 arn |-> "arn:aws:iam::" \o account_id \o ":role/" \o Role \o "-" \o sfx,
                 assume_role_policy |-> assume_role_policy ]
    /\ created' = created \cup {Role}
    /\ UNCHANGED <<aws_region, account_id, pc, registered,
                   s3_express_directory_bucket, glue_database, glue_table,
                   firehose_policy, policy_attachment, firehose_stream,
                   stack_outputs>>

CreatePolicy ==
    /\ Ready(Policy)
    /\ \E sfx \in Suffixes :
           firehose_policy' =
               [ name |-> Policy \o "-" \o sfx,
                 arn |-> "arn:aws:iam::" \o account_id \o ":policy/" \o Policy \o "-" \o sfx,
                 policy |-> firehose_policy_document ]
    /\ created' = created \cup {Policy}
    /\ UNCHANGED <<aws_region, account_id, pc, registered,
                   s3_express_directory_bucket, glue_database, glue_table,
                   firehose_role, policy_attachment, firehose_stream,
                   stack_outputs>>

CreateAttachment ==
    /\ Ready(Attachment)
    /\ policy_attachment' =
           [role |-> firehose_role.name, policy_arn |-> firehose_policy.arn]
    /\ created' = created \cup {Attachment}
    /\ UNCHANGED <<aws_region, account_id, pc, registered,
                   s3_express_directory_bucket, glue_database, glue_table,
                   firehose_role, firehose_policy, firehose_stream,
                   stack_outputs>>

CreateStream ==
    /\ Ready(Stream)
    /\ firehose_stream' =
           [ name |-> FirehoseStreamArgs.name,
             destination |-> FirehoseStreamArgs.destination,
             arn |-> "arn:aws:firehose:" \o aws_region \o ":" \o account_id
                         \o ":deliverystream/" \o FirehoseStreamArgs.name,
             extended_s3_configuration |-> FirehoseStreamArgs.extended_s3_configuration ]
    /\ created' = created \cup {Stream}
    /\ UNCHANGED <<aws_region, account_id, pc, registered,
                   s3_express_directory_bucket, glue_database, glue_table,
                   firehose_role, firehose_policy, policy_attachment,
                   stack_outputs>>

(* The script reaches its exports; they resolve once their values exist. *)
Export ==
    /\ pc = ExportsPc
    /\ ExportDeps \subseteq created
    /\ stack_outputs' = StackExports
    /\ pc' = DonePc
    /\ UNCHANGED <<aws_region, account_id, registered, created,
                   s3_express_directory_bucket, glue_database, glue_table,
                   firehose_role, firehose_policy, policy_attachment,
                   firehose_stream>>

Next ==
    \/ \E r \in Resources : Register(r)
    \/ CreateBucket
    \/ CreateDatabase
    \/ CreateTable
    \/ CreateRole
    \/ CreatePolicy
    \/ CreateAttachment
    \/ CreateStream
    \/ Export

Spec == Init /\ [][Next]_vars

(* The engine creates every resource that is ready and the script runs on. *)
FairSpec ==
    /\ Spec
    /\ WF_vars(\E r \in Resources : Register(r))
    /\ WF_vars(CreateBucket)
    /\ WF_vars(CreateDatabase)
    /\ WF_vars(CreateTable)
    /\ WF_vars(CreateRole)
    /\ WF_vars(CreatePolicy)
    /\ WF_vars(CreateAttachment)
    /\ WF_vars(CreateStream)
    /\ WF_vars(Export)

----------------------------------------------------------------------------
(* Properties. *)

ExtendedS3 == firehose_stream.extended_s3_configuration

\* The policy document whose s3express statement names bucketArn and the
\* objects under it, whose Glue statement names the catalog, database and
\* table of the given coordinates, and whose last statement names the
\* stream's log group.
PolicyNaming(bucketArn, catalogId, dbName, tblName) ==
    JsonDumps(
      [ Version |-> "2012-10-17",
        Statement |->
          << [Effect |-> "Allow", Action |-> S3ExpressActions,
              Resource |-> <<bucketArn, bucketArn \o "/*">>],
             [Effect |-> "Allow", Action |-> GlueActions,
              Resource |->
                <<"arn:aws:glue:" \o aws_region \o ":" \o catalogId \o ":catalog",
                  "arn:aws:glue:" \o aws_region \o ":" \o catalogId
                      \o ":database/" \o dbName,
                  "arn:aws:glue:" \o aws_region \o ":" \o catalogId
                      \o ":table/" \o dbName \o "/" \o tblName>>],
             [Effect |-> "Allow", Action |-> LogsActions,
              Resource |-> <<LogGroupArn>>] >> ])

\* C1: once the Glue table exists its storage location is "s3express://" +
\* the bucket's resolved name + "/web_events_s3_table/", and once the stack
\* outputs are exported s3_table_location is that same string.
C1_TableLocationFromBucketName ==
    /\ Table \in created =>
           glue_table.storage_descriptor.location =
               "s3express://" \o s3_express_directory_bucket.bucket_name
                   \o "/" \o "web_events_s3_table" \o "/"
    /\ pc = DonePc =>
           /\ stack_outputs.s3_table_location =
                  "s3express://" \o s3_express_directory_bucket.bucket_name
                      \o "/" \o "web_events_s3_table" \o "/"
           /\ stack_outputs.s3_table_location =
                  glue_table.storage_descriptor.location

C1_Witness ==
    /\ pc = DonePc
    /\ Table \in created
    /\ stack_outputs.s3_table_location =
           "s3express://my-s3-table-bucket--use1-az4--x-s3/web_events_s3_table/"

\* C2: once the policy exists, its document is the one whose s3express
\* statement lists exactly the bucket ARN and the bucket ARN + "/*", whose
\* Glue statement lists exactly the catalog, database and table ARNs built
\* from the database's catalog id and name and the table's name, and whose
\* only other resource is the stream's log group.
C2_PolicyResourcesFromArns ==
    Policy \in created =>
        firehose_policy.policy =
            PolicyNaming("arn:aws:s3express:" \o aws_region \o ":" \o account_id
                             \o ":bucket/" \o s3_express_directory_bucket.bucket_name,
                         glue_database.catalog_id,
                         glue_database.name,
                         glue_table.name)

C2_Witness ==
    /\ Policy \in created
    /\ aws_region = "us-west-2"
    /\ account_id = "222222222222"

\* C3: once the stream exists, its extended-S3 role_arn and its schema
\* configuration's role_arn are the Firehose role's ARN, the schema
\* configuration names the Glue database and table, and its bucket_arn is
\* the bucket ARN the policy's s3express statement grants access to; the
\* attachment binds that policy to that role.
C3_StreamEmbedsRoleAndTable ==
    Stream \in created =>
        /\ ExtendedS3.role_arn = firehose_role.arn
        /\ ExtendedS3.data_format_conversion_configuration
               .schema_configuration.role_arn = firehose_role.arn
        /\ ExtendedS3.data_format_conversion_configuration
               .schema_configuration.database_name = glue_database.name
        /\ ExtendedS3.data_format_conversion_configuration
               .schema_configuration.table_name = glue_table.name
        /\ Policy \in created =>
               firehose_policy.policy =
                   PolicyNaming(ExtendedS3.bucket_arn, glue_database.catalog_id,
                                glue_database.name, glue_table.name)
        /\ Attachment \in created =>
               /\ policy_attachment.role = firehose_role.name
               /\ policy_attachment.policy_arn = firehose_policy.arn

C3_Witness ==
    /\ Stream \in created
    /\ Policy \in created
    /\ Attachment \in created

\* C4: once the bucket exists, its name is bucket_base_name + "--" + the
\* zone id of its location + "--x-s3", that zone id is the configured
\* availability_zone_id, the location type is "AvailabilityZone" and the
\* data redundancy is "SingleAvailabilityZone".
C4_BucketNameConvention ==
    Bucket \in created =>
        /\ s3_express_directory_bucket.bucket_name =
               "my-s3-table-bucket" \o "--"
                   \o s3_express_directory_bucket.location.name \o "--x-s3"
        /\ s3_express_directory_bucket.location.name = availability_zone_id
        /\ s3_express_directory_bucket.location.type = "AvailabilityZone"
        /\ s3_express_directory_bucket.data_redundancy = "SingleAvailabilityZone"

C4_Witness ==
    /\ Bucket \in created
    /\ s3_express_directory_bucket.bucket_name = "my-s3-table-bucket--use1-az4--x-s3"

\* C5: in every provisioning order the table exists only after the bucket
\* and the database, the policy only after the bucket, database and table,
\* the attachment only after the role and the policy, the stream only
\* after the role, bucket, database and table; and all seven resources
\* are eventually created.
C5_DependencyOrderAndCompletion ==
    /\ [](/\ Table \in created => {Bucket, Database} \subseteq created
          /\ Policy \in created => {Bucket, Database, Table} \subseteq created
          /\ Attachment \in created => {Role, Policy} \subseteq created
          /\ Stream \in created => {Role, Bucket, Database, Table} \subseteq created)
    /\ <>(created = Resources)

C5_Witness ==
    /\ created = Resources
    /\ Cardinality(created) = 7

\* C6: whenever the delivery stream exists, the policy granting s3express
\* access on the bucket is already attached to the Firehose role.
C6_StreamOnlyAfterAttachment ==
    Stream \in created =>
        /\ Attachment \in created
        /\ policy_attachment.role = firehose_role.name
        /\ policy_attachment.policy_arn = firehose_policy.arn

\* C7: once the stream exists, "s3express://" + the bucket's name + "/" +
\* the stream's prefix is the Glue table's storage location, and the
\* prefix is table_name + "/".
C7_PrefixAlignsWithTableLocation ==
    Stream \in created =>
        /\ "s3express://" \o s3_express_directory_bucket.bucket_name \o "/"
               \o ExtendedS3.prefix = glue_table.storage_descriptor.location
        /\ ExtendedS3.prefix = "web_events_s3_table" \o "/"

C7_Witness ==
    /\ Stream \in created
    /\ Table \in created
    /\ ExtendedS3.prefix = "web_events_s3_table/"

\* Expressions by which a prefix takes partition key k from the record.
KeyExpressions(k) ==
    { "!{partitionKeyFromQuery:" \o k \o "}",
      "!{partitionKeyFromLambda:" \o k \o "}" }

PrefixSuppliesKey(parts, k) ==
    \E i \in 1..Len(parts) : \E e \in KeyExpressions(k) :
        \/ parts[i] = e
        \/ parts[i] = e \o "/"
        \/ parts[i] = k \o "=" \o e
        \/ parts[i] = k \o "=" \o e \o "/"

ColumnType(columns, n) ==
    {columns[i].type : i \in {j \in 1..Len(columns) : columns[j].name = n}}

\* C8: once the stream exists with dynamic partitioning enabled, it
\* supplies site_id and date before the partitioning step (an enabled
\* processing configuration, or key expressions in the prefix), and the
\* table's partition keys are exactly site_id (string) and date (date),
\* typed as the schema columns of the same names.
C8_DynamicPartitioningKeysSupplied ==
    (Stream \in created /\ ExtendedS3.dynamic_partitioning_configuration.enabled) =>
        /\ \/ ExtendedS3.processing_configuration.enabled
           \/ /\ ExtendedS3.prefix = OutputConcat(PrefixParts)
              /\ \A k \in {"site_id", "date"} : PrefixSuppliesKey(PrefixParts, k)
        /\ glue_table.partition_keys =
               <<[name |-> "site_id", type |-> "string"],
                 [name |-> "date", type |-> "date"]>>
        /\ \A i \in 1..Len(glue_table.partition_keys) :
               ColumnType(glue_table.storage_descriptor.columns,
                          glue_table.partition_keys[i].name)
                   = {glue_table.partition_keys[i].type}

\* str.lower() on the compression values of the Parquet serializer
LowerCodec ==
    ("UNCOMPRESSED" :> "uncompressed") @@ ("GZIP" :> "gzip") @@ ("SNAPPY" :> "snappy")

\* C9: the table declares format "parquet" with codec "snappy"; the stream
\* converts with a Parquet serializer whose compression is that codec up
\* to case, and the stream's own compression_format is "UNCOMPRESSED".
C9_OutputFormatMatchesTable ==
    /\ Table \in created =>
           /\ glue_table.parameters["format"] = "parquet"
           /\ glue_table.parameters["write.parquet.compression-codec"] = "snappy"
    /\ Stream \in created =>
           /\ ExtendedS3.data_format_conversion_configuration.enabled
           /\ "parquet_ser_de" \in DOMAIN ExtendedS3.data_format_conversion_configuration
                                      .output_format_configuration.serializer
           /\ LowerCodec[ExtendedS3.data_format_conversion_configuration
                             .output_format_configuration.serializer
                             .parquet_ser_de.compression]
                  = glue_table.parameters["write.parquet.compression-codec"]
           /\ ExtendedS3.compression_format = "UNCOMPRESSED"

C9_Witness ==
    /\ Stream \in created
    /\ Table \in created
    /\ ExtendedS3.data_format_conversion_configuration
           .output_format_configuration.serializer.parquet_ser_de.compression = "SNAPPY"

====
